---- MODULE Spec2Model ----
(***************************************************************************)
(* Model of ellama's session/model coordination layer:                     *)
(*   src/src/sessions.rs  Sessions (speech edge detector, session list)    *)
(*   src/src/widgets.rs   ModelPicker, ModelSettings, make_short_name      *)
(* Rust Option<T> values are sequences of length at most one: None is <<>> *)
(* and Some(x) is <<x>>.  Rust indices are kept 0-based; the element at    *)
(* index i of a Vec is element i + 1 of the sequence that models it.       *)
(***************************************************************************)
EXTENDS Integers, Sequences, FiniteSets, TLC

VARIABLES
    \* ---- Sessions (sessions.rs:17-23)
    tab,            \* SessionTab: "Chats" or "Model"
    chats,          \* Vec<Chat>
    selected_chat,  \* Option<usize>
    is_speaking,    \* bool: the sample taken by the previous tick
    tts,            \* SharedTts: None when Tts::default() failed
    \* ---- the speech device behind the tts handle
    device_busy,    \* what is_speaking() reports when the read succeeds
    speaker,        \* Option<usize>: the chat that last started playback
    \* ---- what the ticks did (observations)
    samples,        \* the samples taken so far, one per tick
    stopped_seq,    \* the stopped_talking value computed by each tick
    tick,           \* the calls made by the last Sessions::show
    \* ---- ModelPicker (widgets.rs:51-56)
    selected,       \* SelectedModel
    info,           \* Option<ModelInfo>
    settings,       \* ModelSettings
    info_from,      \* Option<name>: the name the cached info was delivered for
    last,           \* the last ModelPicker operation: its arguments and calls
    \* ---- From<ModelSettings> for GenerationOptions
    options,        \* Option<GenerationOptions>: the result of the conversion
    \* ---- make_short_name
    name_arg,       \* the name it is applied to
    short_result,   \* Option<String>: its result
    \* ---- serde::Deserialize of the persisted state
    loaded          \* Option: the record that was loaded and the result

sessVars == <<tab, chats, selected_chat, is_speaking, tts, device_busy, speaker,
              samples, stopped_seq, tick>>
pickVars == <<selected, info, settings, info_from, last>>
convVars == <<options>>
nameVars == <<name_arg, short_result>>
loadVars == <<loaded>>

vars == <<sessVars, pickVars, convVars, nameVars, loadVars>>

\* ------------------------------------------------------------------ bounds
MaxTicks == 7
MaxChats == 3

\* ------------------------------------------------------------------ Option
None == <<>>
Some(x) == <<x>>
IsSome(o) == Len(o) = 1
Unwrap(o) == o[1]

\* ------------------------------------------------------------------ Chat
\* crate::chat::Chat: only its summary is read by Sessions.
ChatDefault == [summary |-> ""]

\* Chat::show: a chat that is shown gets a summary; a chat that was never
\* shown keeps the default one.
ChatShow(chat) == [chat EXCEPT !.summary = "hello"]

\* What the shown chat does with the tts handle it is given: nothing, start
\* playback, or stop it.  Without a device there is nothing to command.
Playbacks == {"none", "start", "stop"}
ChatPlayback(busy, play) ==
    CASE play = "start" -> TRUE
      [] play = "stop"  -> FALSE
      [] OTHER          -> busy

\* ------------------------------------------------------------------ Sessions
\* One pointer click reaches at most one widget of the left panel per frame.
NoClick == [kind |-> "none", idx |-> 0]
TabClick(t) == [kind |-> "tab", idx |-> IF t = "Chats" THEN 0 ELSE 1]
NewChatClick == [kind |-> "newChat", idx |-> 0]
SelectClick(i) == [kind |-> "select", idx |-> i]

\* (mutant) a failed status read counts as speaking
SampleFailedAsSpeaking(readOk) ==
    IF IsSome(tts) THEN (IF readOk THEN device_busy ELSE TRUE) ELSE FALSE

\* tts.read().is_speaking().unwrap_or(false), or false without a device;
\* readOk says whether is_speaking() returned Ok
Sample(readOk) == IF IsSome(tts) THEN (IF readOk THEN device_busy ELSE FALSE) ELSE FALSE

\* The outcomes of the status read that can be told apart: the read of an idle
\* device, and the read without a device, give FALSE whether or not they fail.
ReadOutcomes == IF IsSome(tts) /\ device_busy THEN BOOLEAN ELSE {TRUE}

\* show_left_panel: the tab buttons; the new value decides what is rendered
TabAfter(click) ==
    IF click.kind = "tab" THEN (IF click.idx = 0 THEN "Chats" ELSE "Model") ELSE tab

\* show_chats: the New Chat button
ChatsAfter(click) ==
    IF click.kind = "newChat" THEN Append(chats, ChatDefault) ELSE chats

\* (mutant) the new chat becomes the active one
SelectedAfterActivatesNew(click) ==
    IF click.kind = "select" THEN Some(click.idx)
    ELSE IF click.kind = "newChat" THEN Some(Len(chats)) ELSE selected_chat

\* (mutant) the button of chat i activates position i + 1
SelectedAfterNext(click) ==
    IF click.kind = "select" THEN Some(click.idx + 1) ELSE selected_chat

\* show_chats: the per-chat buttons
SelectedAfter(click) ==
    IF click.kind = "select" THEN Some(click.idx) ELSE selected_chat

\* (mutant) the chat that was active when the tick began is the one shown
GetSelectedChatBeforeClicks(cs, sel) ==
    IF IsSome(selected_chat) /\ Unwrap(selected_chat) < Len(cs)
      THEN Some(Unwrap(selected_chat)) ELSE None

\* get_selected_chat: self.chats.get_mut(self.selected_chat?)
GetSelectedChat(cs, sel) ==
    IF IsSome(sel) /\ Unwrap(sel) < Len(cs) THEN Some(Unwrap(sel)) ELSE None

\* (mutant) the previous sample is ignored
StoppedTalkingLevel(prev, cur) == ~cur

\* prev_is_speaking && !is_speaking
StoppedTalking(prev, cur) == prev /\ ~cur

\* (mutant) every tick asks for another one
RepaintRequestsAlways(cur) == 1

\* (mutant) no tick asks for another one
RepaintRequestsNever(cur) == 0

\* if self.is_speaking { ctx.request_repaint(); }
RepaintRequests(cur) == IF cur THEN 1 ELSE 0

\* The widgets a click can reach in this frame: show_chats is rendered only
\* under the Chats tab, and offers one button per existing chat.
ClickPossible(click) ==
    CASE click.kind = "newChat" -> tab = "Chats" /\ Len(chats) < MaxChats
      [] click.kind = "select"  -> tab = "Chats" /\ click.idx \in 0..(Len(chats) - 1)
      [] OTHER                  -> TRUE

\* Sessions::show, one tick: what it does to Sessions, the device and the host
ShowStep(readOk, click, play) ==
    LET prev == is_speaking
        cur  == Sample(readOk)
        cs   == ChatsAfter(click)
        sel  == SelectedAfter(click)
        got  == GetSelectedChat(cs, sel)
        st   == StoppedTalking(prev, cur)
    IN  /\ ClickPossible(click)
        /\ is_speaking' = cur
        /\ tab' = TabAfter(click)
        /\ selected_chat' = sel
        /\ IF IsSome(got)
             THEN /\ chats' = [cs EXCEPT ![Unwrap(got) + 1] = ChatShow(@)]
                  /\ IF IsSome(tts)
                       THEN /\ device_busy' = ChatPlayback(device_busy, play)
                            /\ speaker' = IF play = "start" THEN got ELSE speaker
                       ELSE /\ play = "none"
                            /\ UNCHANGED <<device_busy, speaker>>
                  /\ tick' = [read_ok |-> readOk, repaint |-> RepaintRequests(cur),
                              shown |-> <<[idx |-> Unwrap(got), stopped |-> st]>>]
             ELSE /\ play = "none"
                  /\ chats' = cs
                  /\ UNCHANGED <<device_busy, speaker>>
                  /\ tick' = [read_ok |-> readOk, repaint |-> RepaintRequests(cur),
                              shown |-> <<>>]
        /\ UNCHANGED tts
        /\ UNCHANGED <<pickVars, convVars, nameVars, loadVars>>

\* Sessions::show, one tick, with its sample and its stopped value recorded
Show(readOk, click, play) ==
    /\ Len(samples) < MaxTicks
    /\ ShowStep(readOk, click, play)
    /\ samples' = Append(samples, Sample(readOk))
    /\ stopped_seq' = Append(stopped_seq, StoppedTalking(is_speaking, Sample(readOk)))

\* a tick with no click in the left panel
Tick == \E readOk \in ReadOutcomes, play \in Playbacks :
            Show(readOk, NoClick, play)

\* a tick in which a tab button is clicked
SelectTab == \E t \in {"Chats", "Model"}, readOk \in ReadOutcomes, play \in Playbacks : Show(readOk, TabClick(t), play)

\* a tick in which the New Chat button is clicked
NewChat == \E readOk \in ReadOutcomes, play \in Playbacks :
               Show(readOk, NewChatClick, play)

\* a tick in which the button of chat i is clicked
SelectChat == \E i \in 0..(MaxChats - 1), readOk \in ReadOutcomes, play \in Playbacks : Show(readOk, SelectClick(i), play)

\* the device finishes the utterance on its own, between two ticks
DeviceFinish ==
    /\ device_busy
    /\ device_busy' = FALSE
    /\ UNCHANGED <<tab, chats, selected_chat, is_speaking, tts, speaker,
                   samples, stopped_seq, tick>>
    /\ UNCHANGED <<pickVars, convVars, nameVars, loadVars>>

\* ---- the ticks the host runs, with no record kept of past ticks
\* Sessions::show, one tick
Frame(readOk, click, play) ==
    /\ ShowStep(readOk, click, play)
    /\ UNCHANGED <<samples, stopped_seq>>

\* the clicks the left panel can receive
Clicks ==
    {NoClick, NewChatClick} \cup {TabClick(t) : t \in {"Chats", "Model"}}
        \cup {SelectClick(i) : i \in 0..(MaxChats - 1)}

\* the tick the host runs because the previous one called request_repaint
Repaint ==
    /\ tick.repaint > 0
    /\ \E readOk \in ReadOutcomes, play \in Playbacks : Frame(readOk, NoClick, play)

\* a tick the host runs because of user input or for any other reason
Activity ==
    \E click \in Clicks, readOk \in ReadOutcomes, play \in Playbacks :
        Frame(readOk, click, play)

\* Sessions::default, but for the outcome of Tts::default()
SessionsDefault ==
    /\ tab = "Chats"
    /\ chats = <<ChatDefault>>
    /\ selected_chat = Some(0)
    /\ is_speaking = FALSE
    /\ device_busy = FALSE
    /\ speaker = None
    /\ samples = <<>>
    /\ stopped_seq = <<>>
    /\ tick = [read_ok |-> TRUE, repaint |-> 0, shown |-> <<>>]

\* ======================================================================
\* widgets.rs: make_short_name
\* ======================================================================
\* A String is the sequence of its chars; a char is a one-letter string, and
\* "eszett" stands for U+00DF, the letter whose upper case is two chars.
LowerCase == <<"a", "b", "c", "d", "e", "f", "g", "h", "i", "j", "k", "l", "m",
               "n", "o", "p", "q", "r", "s", "t", "u", "v", "w", "x", "y", "z">>
UpperCase == <<"A", "B", "C", "D", "E", "F", "G", "H", "I", "J", "K", "L", "M",
               "N", "O", "P", "Q", "R", "S", "T", "U", "V", "W", "X", "Y", "Z">>
Digits == {"0", "1", "2", "3", "4", "5", "6", "7", "8", "9"}
Range(f) == {f[i] : i \in DOMAIN f}

LowerLetters == Range(LowerCase)
Alphanumerics == Range(LowerCase) \cup Range(UpperCase) \cup Digits \cup {"eszett"}

\* char::is_alphanumeric
IsAlphanumeric(c) == c \in Alphanumerics

\* char::to_uppercase: an iterator of one or more chars
ToUppercase(c) ==
    IF c \in LowerLetters
      THEN <<UpperCase[CHOOSE i \in DOMAIN LowerCase : LowerCase[i] = c]>>
      ELSE IF c = "eszett" THEN <<"S", "S">> ELSE <<c>>

\* name.chars().take_while(|c| c.is_alphanumeric())
RECURSIVE TakeWhileAlphanumeric(_)
TakeWhileAlphanumeric(str) ==
    IF str = <<>> \/ ~IsAlphanumeric(Head(str))
      THEN <<>>
      ELSE <<Head(str)>> \o TakeWhileAlphanumeric(Tail(str))

Llama == <<"L", "l", "a", "m", "a">>

\* (mutant) no placeholder: an empty run gives an empty short name
make_short_name_no_fallback(name) ==
    LET c == TakeWhileAlphanumeric(name)
    IN  IF c = <<>> THEN <<>> ELSE ToUppercase(Head(c)) \o Tail(c)

make_short_name(name) ==
    LET c == TakeWhileAlphanumeric(name)
    IN  IF c = <<>> THEN Llama ELSE ToUppercase(Head(c)) \o Tail(c)

\* the names make_short_name is applied to
MaxNameLen == 3
NameAlphabet == {"g", "Z", "7", "-", ":", "eszett"}
RECURSIVE StringsUpTo(_, _)
StringsUpTo(alphabet, n) ==
    IF n = 0 THEN {<<>>}
    ELSE LET shorter == StringsUpTo(alphabet, n - 1)
         IN  shorter \cup {Append(w, c) : w \in shorter, c \in alphabet}

NousHermes == <<"n", "o", "u", "s", "-", "h", "e", "r", "m", "e", "s", "2", ":",
                "l", "a", "t", "e", "s", "t">>
Gemma == <<"g", "e", "m", "m", "a", ":", "l", "a", "t", "e", "s", "t">>
DashModel == <<"-", "x", ":", "7", "b">>

NameInputs == StringsUpTo(NameAlphabet, MaxNameLen) \cup {NousHermes, Gemma, DashModel}

MakeShortName ==
    /\ short_result = None
    /\ short_result' = Some(make_short_name(name_arg))
    /\ UNCHANGED name_arg
    /\ UNCHANGED <<sessVars, pickVars, convVars, loadVars>>

NameIdle == name_arg = <<>> /\ short_result = None

\* ======================================================================
\* widgets.rs: Mirostat, ModelSettings, From<ModelSettings>
\* ======================================================================
\* A number is the string of its decimal literal: u32::MAX and f32::MAX are
\* beyond the integers TLC computes with, and no arithmetic is done on them.

\* enum Mirostat, in declaration order
MirostatVariants == <<"Disabled", "Mirostat", "Mirostat2">>

\* (mutant) discriminants counted from one
to_u8_from_one(m) == CHOOSE i \in DOMAIN MirostatVariants : MirostatVariants[i] = m

\* Mirostat::to_u8: self as u8, the discriminant
to_u8(m) == (CHOOSE i \in DOMAIN MirostatVariants : MirostatVariants[i] = m) - 1

\* struct ModelSettings: the fields and their types
F32Fields == {"mirostat_eta", "mirostat_tau", "repeat_penalty", "temperature",
              "tfs_z", "top_p"}
U32Fields == {"num_ctx", "num_gqa", "num_gpu", "num_thread", "top_k"}
I32Fields == {"repeat_last_n", "seed", "num_predict"}
NumericFields == F32Fields \cup U32Fields \cup I32Fields
SettingsFields == {"mirostat", "stop"} \cup NumericFields

FieldType(f) ==
    CASE f \in F32Fields -> "f32"
      [] f \in U32Fields -> "u32"
      [] f \in I32Fields -> "i32"
      [] f = "mirostat"  -> "Mirostat"
      [] OTHER           -> "Vec<String>"

\* ModelSettings::default (derived): every parameter none
SettingsDefault == [f \in SettingsFields |-> None]

\* GenerationOptions::default: every field omitted
OptionsDefault == [f \in SettingsFields |-> None]

\* a builder method of GenerationOptions: self.field = Some(v); self
With(s, f, v) == [s EXCEPT ![f] = Some(v)]

\* if let Some(x) = opt { s = s.f(x); }
IfLetSome(s, f, opt) == IF IsSome(opt) THEN With(s, f, Unwrap(opt)) ELSE s

\* From<ModelSettings> for GenerationOptions
ToGenerationOptions(value) ==
    LET s0  == OptionsDefault
        s1  == IF IsSome(value.mirostat)
                 THEN With(s0, "mirostat", to_u8(Unwrap(value.mirostat))) ELSE s0
        s2  == IfLetSome(s1, "mirostat_eta", value.mirostat_eta)
        s3  == IfLetSome(s2, "mirostat_tau", value.mirostat_tau)
        s4  == IfLetSome(s3, "num_ctx", value.num_ctx)
        s5  == IfLetSome(s4, "num_gqa", value.num_gqa)
        s6  == IfLetSome(s5, "num_gpu", value.num_gpu)
        s7  == IfLetSome(s6, "num_thread", value.num_thread)
        s8  == IfLetSome(s7, "repeat_last_n", value.repeat_last_n)
        s9  == IfLetSome(s8, "repeat_penalty", value.repeat_penalty)
        s10 == IfLetSome(s9, "temperature", value.temperature)
        s11 == IfLetSome(s10, "seed", value.seed)
        s12 == IfLetSome(s11, "stop", value.stop)
        s13 == IfLetSome(s12, "tfs_z", value.tfs_z)
        s14 == IfLetSome(s13, "num_predict", value.num_predict)
        s15 == IfLetSome(s14, "top_k", value.top_k)
        s16 == IfLetSome(s15, "top_p", value.top_p)
    IN  s16

\* the domain default each editor of ModelSettings::show is given
DomainDefault ==
    [mirostat_eta |-> "0.1", mirostat_tau |-> "5.0", num_ctx |-> "2048",
     num_gqa |-> "8", num_gpu |-> "1", num_thread |-> "0",
     repeat_last_n |-> "64", repeat_penalty |-> "1.1", temperature |-> "0.8",
     seed |-> "0", tfs_z |-> "1.0", num_predict |-> "128", top_k |-> "40",
     top_p |-> "0.9"]

\* Numeric::MAX and Numeric::MIN of the three numeric types
TypeMax(t) ==
    CASE t = "u32" -> "4294967295"
      [] t = "i32" -> "2147483647"
      [] OTHER     -> "3.4028235e38"
TypeMin(t) ==
    CASE t = "u32" -> "0"
      [] t = "i32" -> "-2147483648"
      [] OTHER     -> "-3.4028235e38"

\* a value a DragValue can be dragged to, per type
DragTarget(t) ==
    CASE t = "u32" -> "4096"
      [] t = "i32" -> "-1"
      [] OTHER     -> "0.5"

\* One interaction with the settings editor in a frame.  what is one of
\* "none", "toggle" (the Enable checkbox), "drag", "max", "min", "reset",
\* "choose" (the Mirostat combo box), and for the stop list "remove", "edit",
\* "add", "clear"; val is the value dragged to, chosen or typed, idx the list
\* element.
Act(f, what, val, idx) == [field |-> f, what |-> what, val |-> val, idx |-> idx]
NoAct == Act("", "none", "", 0)

\* (mutant) reset puts the domain default back
EditNumericResetToDefault(val, default, typ, act) ==
    LET enabled == IF act.what = "toggle" THEN ~IsSome(val) ELSE IsSome(val)
        seeded  == IF ~enabled THEN None
                   ELSE IF val = None THEN Some(default) ELSE val
    IN  IF ~IsSome(seeded) THEN seeded
        ELSE CASE act.what = "drag"  -> Some(act.val)
               [] act.what = "max"   -> Some(TypeMax(typ))
               [] act.what = "min"   -> Some(TypeMin(typ))
               [] act.what = "reset" -> Some(default)
               [] OTHER              -> seeded

\* ModelSettings::edit_numeric on one parameter
EditNumeric(val, default, typ, act) ==
    LET enabled == IF act.what = "toggle" THEN ~IsSome(val) ELSE IsSome(val)
        seeded  == IF ~enabled THEN None
                   ELSE IF val = None THEN Some(default) ELSE val
    IN  IF ~IsSome(seeded) THEN seeded
        ELSE CASE act.what = "drag"  -> Some(act.val)
               [] act.what = "max"   -> Some(TypeMax(typ))
               [] act.what = "min"   -> Some(TypeMin(typ))
               [] act.what = "reset" -> None
               [] OTHER              -> seeded

\* ModelSettings::show, the Mirostat block
EditMirostat(val, act) ==
    LET enabled == IF act.what = "toggle" THEN ~IsSome(val) ELSE IsSome(val)
        seeded  == IF ~enabled THEN None
                   ELSE IF val = None THEN Some("Disabled") ELSE val
    IN  IF IsSome(seeded) /\ act.what = "choose" THEN Some(act.val) ELSE seeded

\* Vec::retain_mut / the text edits of the stop list
RemoveAt(list, i) ==
    [k \in 1..(Len(list) - 1) |-> IF k <= i THEN list[k] ELSE list[k + 1]]

\* (mutant) Clear turns the parameter off
EditStopClearToNone(val, act) ==
    LET enabled == IF act.what = "toggle" THEN ~IsSome(val) ELSE IsSome(val)
        seeded  == IF ~enabled THEN None
                   ELSE IF val = None THEN Some(<<>>) ELSE val
    IN  IF ~IsSome(seeded) THEN seeded
        ELSE LET stop == Unwrap(seeded)
             IN  CASE act.what = "edit"   -> Some([stop EXCEPT ![act.idx + 1] = act.val])
                   [] act.what = "remove" -> Some(RemoveAt(stop, act.idx))
                   [] act.what = "add"    -> Some(Append(stop, ""))
                   [] act.what = "clear"  -> None
                   [] OTHER               -> seeded

\* ModelSettings::show, the Stop Sequence block
EditStop(val, act) ==
    LET enabled == IF act.what = "toggle" THEN ~IsSome(val) ELSE IsSome(val)
        seeded  == IF ~enabled THEN None
                   ELSE IF val = None THEN Some(<<>>) ELSE val
    IN  IF ~IsSome(seeded) THEN seeded
        ELSE LET stop == Unwrap(seeded)
             IN  CASE act.what = "edit"   -> Some([stop EXCEPT ![act.idx + 1] = act.val])
                   [] act.what = "remove" -> Some(RemoveAt(stop, act.idx))
                   [] act.what = "add"    -> Some(Append(stop, ""))
                   [] act.what = "clear"  -> Some(<<>>)
                   [] OTHER               -> seeded

\* ModelSettings::show: every editor is rendered; the frame's interaction
\* reaches the one it targets
SettingsShow(s, act) ==
    [f \in SettingsFields |->
        LET a == IF act.field = f THEN act ELSE NoAct
        IN  CASE f = "mirostat" -> EditMirostat(s[f], a)
              [] f = "stop"     -> EditStop(s[f], a)
              [] OTHER          -> EditNumeric(s[f], DomainDefault[f], FieldType(f), a)]

\* the stop list editor: the texts typed, and the length the model lets it reach
MaxStop == 3
StopTexts == {"", "###", "User:"}

\* The interactions the rendered editors offer: the widgets after the Enable
\* checkbox are disabled while the parameter is none.
ActsOf(s, f) ==
    {Act(f, "toggle", "", 0)} \cup
    (IF ~IsSome(s[f]) THEN {}
     ELSE CASE f = "mirostat" ->
                 {Act(f, "choose", m, 0) : m \in Range(MirostatVariants)}
            [] f = "stop" ->
                 {Act(f, w, "", 0) : w \in IF Len(Unwrap(s[f])) < MaxStop
                                             THEN {"add", "clear"} ELSE {"clear"}}
                 \cup {Act(f, "remove", "", i) : i \in 0..(Len(Unwrap(s[f])) - 1)}
                 \cup {Act(f, "edit", t, i) : t \in StopTexts,
                                              i \in 0..(Len(Unwrap(s[f])) - 1)}
            [] OTHER ->
                 {Act(f, w, "", 0) : w \in {"max", "min", "reset"}}
                 \cup {Act(f, "drag", DragTarget(FieldType(f)), 0)})

\* The widgets add_enabled_ui renders disabled while the parameter is none: a
\* click on one of them is a user input that the editor does not respond to.
DisabledActs(s, f) ==
    IF IsSome(s[f]) THEN {}
    ELSE CASE f \in NumericFields ->
                 {Act(f, w, "", 0) : w \in {"max", "min", "reset"}}
                 \cup {Act(f, "drag", DragTarget(FieldType(f)), 0)}
           [] f = "stop" -> {Act(f, "add", "", 0)}
           [] OTHER      -> {}

\* ModelSettings::show, one render with the user input act; the user works
\* with the editor of one parameter (last.focus)
SettingsEdit(act) ==
    /\ settings' = SettingsShow(settings, act)
    /\ last' = [op |-> "settings", act |-> act, focus |-> last.focus,
                before |-> settings[last.focus]]
    /\ UNCHANGED <<selected, info, info_from>>
    /\ UNCHANGED <<sessVars, convVars, nameVars, loadVars>>

\* a render of the settings editor: no input, or one input on the editor the
\* user works with
EditorFrame ==
    \/ SettingsEdit(NoAct)
    \/ \E a \in ActsOf(settings, last.focus) \cup DisabledActs(settings, last.focus) :
          SettingsEdit(a)

\* ---- the conversion applied to a settings value
\* the values a parameter is given: the default, the extremes, an edited one
ValuesOf(f) ==
    CASE f = "mirostat" -> MirostatVariants
      [] f = "stop"     -> << <<>>, <<"###">>, <<"###", "">> >>
      [] OTHER          -> <<DomainDefault[f], TypeMax(FieldType(f)),
                             TypeMin(FieldType(f)), DragTarget(FieldType(f))>>

MaxVariant == 3
ValueOf(f, v) == ValuesOf(f)[((v - 1) % Len(ValuesOf(f))) + 1]

\* the sets of parameters that are present in a converted value: at most
\* MaxPresent present, or at most MaxPresent none (every group of MaxPresent
\* parameters occurs in each of its combinations of present and none)
MaxPresent == 4
PresenceSets ==
    {present \in SUBSET SettingsFields :
        \/ Cardinality(present) <= MaxPresent
        \/ Cardinality(SettingsFields \ present) <= MaxPresent}

\* the settings with exactly the parameters of present set, to variant v
SettingsOf(present, v) ==
    [f \in SettingsFields |-> IF f \in present THEN Some(ValueOf(f, v)) ELSE None]

\* GenerationOptions::from(settings)
Convert ==
    /\ options = None
    /\ options' = Some(ToGenerationOptions(settings))
    /\ UNCHANGED <<selected, info, settings, info_from, last>>
    /\ UNCHANGED <<sessVars, nameVars, loadVars>>

ConvIdle == options = None

\* ======================================================================
\* widgets.rs: SelectedModel, ModelPicker
\* ======================================================================
\* SelectedModel::default (derived): no selection
SelectedDefault ==
    [name |-> <<>>, short_name |-> <<>>, modified_ago |-> "", modified_at |-> "",
     size |-> 0]

\* chrono::DateTime::parse_from_rfc3339 succeeds on these
Rfc3339 == {"2024-03-01T10:00:00Z"}

\* the relative time, or the text of the parse error
ModifiedAgo(modified_at) ==
    IF modified_at \in Rfc3339 THEN "some time ago" ELSE "input contains invalid characters"

\* From<LocalModel> for SelectedModel
FromLocalModel(model) ==
    [name |-> model.name, short_name |-> make_short_name(model.name),
     modified_ago |-> ModifiedAgo(model.modified_at),
     modified_at |-> model.modified_at, size |-> model.size]

\* ModelPicker::has_selection, of a SelectedModel
HasSelection(sel) == sel.name # <<>>

\* the models the server reports, and the catalogs made of them
ServerCatalog ==
    <<[name |-> Gemma, modified_at |-> "2024-03-01T10:00:00Z", size |-> 10],
      [name |-> NousHermes, modified_at |-> "2024-03-01T10:00:00Z", size |-> 50],
      [name |-> DashModel, modified_at |-> "last week", size |-> 50]>>
LocalModels == Range(ServerCatalog)
ModelNames == {m.name : m \in LocalModels}

MaxCatalog == 3
RECURSIVE CatalogsUpTo(_)
CatalogsUpTo(n) ==
    IF n = 0 THEN {<<>>}
    ELSE LET shorter == CatalogsUpTo(n - 1)
         IN  shorter \cup {Append(c, m) : c \in shorter, m \in LocalModels}
Catalogs == CatalogsUpTo(MaxCatalog)

\* the ModelInfo values a response carries
ModelInfos ==
    {[license |-> "MIT", modelfile |-> "FROM x", parameters |-> "", template |-> ""],
     [license |-> "", modelfile |-> "", parameters |-> "", template |-> ""]}

\* RequestInfoType
RequestModels == [kind |-> "Models", name |-> <<>>]
RequestModelInfo(n) == [kind |-> "ModelInfo", name |-> n]

\* (mutant) an empty catalog gives an empty model instead of no result
MaxByKeySizeOrEmpty(models) ==
    IF models = <<>> THEN Some([name |-> <<>>, modified_at |-> "", size |-> 0])
    ELSE LET best == CHOOSE i \in 1..Len(models) :
                       /\ \A k \in 1..Len(models) : models[k].size <= models[i].size
                       /\ \A k \in (i + 1)..Len(models) : models[k].size < models[i].size
         IN  Some(models[best])

\* (mutant) the maximum met first wins
MaxByKeySizeFirst(models) ==
    IF models = <<>> THEN None
    ELSE LET best == CHOOSE i \in 1..Len(models) :
                       /\ \A k \in 1..Len(models) : models[k].size <= models[i].size
                       /\ \A k \in 1..(i - 1) : models[k].size < models[i].size
         IN  Some(models[best])

\* Iterator::max_by_key(|m| m.size): a fold that replaces the maximum so far
\* by every later element that is not smaller
RECURSIVE FoldMaxBySize(_, _)
FoldMaxBySize(best, rest) ==
    IF rest = <<>> THEN best
    ELSE FoldMaxBySize(IF Head(rest).size >= best.size THEN Head(rest) ELSE best,
                       Tail(rest))
MaxByKeySize(models) ==
    IF models = <<>> THEN None ELSE Some(FoldMaxBySize(Head(models), Tail(models)))

\* One pointer click reaches at most one widget of the picker per frame:
\* a catalog entry, the refresh button, or a widget of the settings editor.
PickNone == [kind |-> "none", idx |-> 0, act |-> NoAct]
PickEntry(i) == [kind |-> "entry", idx |-> i, act |-> NoAct]
PickRefresh == [kind |-> "refresh", idx |-> 0, act |-> NoAct]
PickSettings(a) == [kind |-> "settings", idx |-> 0, act |-> a]

\* the parameters whose editors the user opens in the picker
PickerFields == {"num_ctx"}

\* (mutant) a click on the entry that is already selected changes nothing
InfoAfterClickKeepsSame(models, click) ==
    IF IsSome(models) /\ click.kind = "entry"
         /\ Unwrap(models)[click.idx + 1].name # selected.name
      THEN None ELSE info

\* the selector of ModelPicker::show: self.selected = model.clone().into()
SelectedAfterClick(models, click) ==
    IF IsSome(models) /\ click.kind = "entry"
      THEN FromLocalModel(Unwrap(models)[click.idx + 1]) ELSE selected

\* the selector of ModelPicker::show: self.info = None
InfoAfterClick(models, click) ==
    IF IsSome(models) /\ click.kind = "entry" THEN None ELSE info

\* (mutant) no early return: the request is made without a selection too
InfoRequestsNoReturn(sel, inf) ==
    IF inf = None THEN <<RequestModelInfo(sel.name)>> ELSE <<>>

\* the calls of request_info in ModelPicker::show after the early return on
\* !has_selection: one per render while the cache is absent
InfoRequests(sel, inf) ==
    IF HasSelection(sel) /\ inf = None THEN <<RequestModelInfo(sel.name)>> ELSE <<>>

\* (mutant) the refresh button asks twice
RefreshRequestsTwice(models, click) ==
    IF IsSome(models) /\ click.kind = "refresh"
      THEN <<RequestModels, RequestModels>> ELSE <<>>

\* the call of request_info by the refresh button
RefreshRequests(models, click) ==
    IF IsSome(models) /\ click.kind = "refresh" THEN <<RequestModels>> ELSE <<>>

\* the widgets the frame renders: the selector and the refresh button need a
\* catalog, the settings editor a selection
PickPossible(models, click) ==
    CASE click.kind = "entry" ->
             IsSome(models) /\ click.idx \in 0..(Len(Unwrap(models)) - 1)
      [] click.kind = "refresh" -> IsSome(models)
      [] click.kind = "settings" ->
             /\ HasSelection(selected)
             /\ click.act.field \in PickerFields
             /\ click.act \in ActsOf(settings, click.act.field)
      [] OTHER -> TRUE

\* ModelPicker::show, one render
PickerShow(models, click) ==
    LET sel == SelectedAfterClick(models, click)
        inf == InfoAfterClick(models, click)
    IN  /\ PickPossible(models, click)
        /\ selected' = sel
        /\ info' = inf
        /\ info_from' = IF inf = None THEN None ELSE info_from
        /\ settings' = IF HasSelection(sel) THEN SettingsShow(settings, click.act)
                       ELSE settings
        /\ last' = [op |-> "show", click |-> click.kind,
                    catalog |-> IsSome(models), had_info |-> IsSome(info),
                    prev_name |-> selected.name, name |-> <<>>, models |-> None,
                    fetches |-> RefreshRequests(models, click)
                                \o InfoRequests(sel, inf)]
        /\ UNCHANGED <<sessVars, convVars, nameVars, loadVars>>

\* the catalogs a render is given: none yet, an empty one, the server's list
RenderCatalogs == {None, Some(<<>>), Some(ServerCatalog)}

\* a render in which nothing is clicked
Render == \E models \in RenderCatalogs : PickerShow(models, PickNone)

\* a render in which a catalog entry is clicked
ClickEntry == \E models \in RenderCatalogs, i \in 0..(Len(ServerCatalog) - 1) :
                  PickerShow(models, PickEntry(i))

\* a render in which the refresh button is clicked
ClickRefresh == \E models \in RenderCatalogs : PickerShow(models, PickRefresh)

\* a render in which a widget of the settings editor is used
EditSettings == \E models \in RenderCatalogs, f \in PickerFields :
                    \E a \in ActsOf(settings, f) : PickerShow(models, PickSettings(a))

\* (mutant) a response is stored whatever model it is for
InfoAfterDeliveryAny(name, inf) == Some(inf)

\* ModelPicker::on_new_model_info: the cache after the call
InfoAfterDelivery(name, inf) == IF selected.name = name THEN Some(inf) ELSE info

OnNewModelInfo(name, inf) ==
    /\ info' = InfoAfterDelivery(name, inf)
    /\ info_from' = IF selected.name # name /\ info' = info THEN info_from
                    ELSE Some(name)
    /\ last' = [op |-> "on_new_model_info", click |-> "none", catalog |-> FALSE,
                had_info |-> IsSome(info), prev_name |-> selected.name,
                name |-> name, models |-> None, fetches |-> <<>>]
    /\ UNCHANGED <<selected, settings>>
    /\ UNCHANGED <<sessVars, convVars, nameVars, loadVars>>

\* the fetch collaborator delivers a response
DeliverInfo == \E name \in ModelNames, inf \in ModelInfos : OnNewModelInfo(name, inf)

\* the fetch collaborator answers the request the last render sent it
Respond ==
    /\ last.op = "show"
    /\ \E i \in 1..Len(last.fetches), inf \in ModelInfos :
          /\ last.fetches[i].kind = "ModelInfo"
          /\ OnNewModelInfo(last.fetches[i].name, inf)

\* ModelPicker::select_best_model
SelectBestModel(models) ==
    LET best == MaxByKeySize(models)
    IN  /\ selected' = IF IsSome(best) THEN FromLocalModel(Unwrap(best)) ELSE selected
        /\ last' = [op |-> "select_best_model", click |-> "none", catalog |-> TRUE,
                    had_info |-> IsSome(info), prev_name |-> selected.name,
                    name |-> <<>>, models |-> Some(models), fetches |-> <<>>]
        /\ UNCHANGED <<info, info_from, settings>>
        /\ UNCHANGED <<sessVars, convVars, nameVars, loadVars>>

SelectBest == \E models \in Catalogs : SelectBestModel(models)

\* ModelPicker::default (derived)
PickerDefault ==
    /\ selected = SelectedDefault
    /\ info = None
    /\ settings = SettingsDefault
    /\ info_from = None
    /\ last = [op |-> "new", click |-> "none", catalog |-> FALSE, had_info |-> FALSE,
               prev_name |-> <<>>, name |-> <<>>, models |-> None, fetches |-> <<>>]

\* ======================================================================
\* widgets.rs: serde::Deserialize of SelectedModel, ModelPicker, ModelSettings
\* ======================================================================
\* A persisted record gives each field of the struct Some(value) when the
\* record holds the field and None when the field is absent from it.
Persisted(value, present) ==
    [f \in DOMAIN value |-> IF f \in present THEN Some(value[f]) ELSE None]
Absent(rec) == {f \in DOMAIN rec : rec[f] = None}

SelectedModelFields == {"name", "short_name", "modified_ago", "modified_at", "size"}
ModelPickerFields == {"selected", "info", "settings"}

\* (mutant) no field of SelectedModel carries #[serde(default)]
DefaultedNoAttribute(kind) ==
    CASE kind = "SelectedModel" -> {}
      [] kind = "ModelPicker"   -> {"info"}
      [] OTHER                  -> SettingsFields

\* the fields the derived Deserialize fills in when the record lacks them:
\* those marked #[serde(default)] and those of type Option
Defaulted(kind) ==
    CASE kind = "SelectedModel" -> {"short_name", "modified_ago"}
      [] kind = "ModelPicker"   -> {"info"}
      [] OTHER                  -> SettingsFields

\* what they are filled in with: String::default() or None
FieldDefault(kind, f) ==
    IF kind = "SelectedModel" THEN SelectedDefault[f] ELSE None

\* the derived Deserialize of a struct: Ok(value) is Some(value), and the
\* error "missing field" is None
Deserialize(kind, rec) ==
    IF Absent(rec) \ Defaulted(kind) # {} THEN None
    ELSE Some([f \in DOMAIN rec |->
                 IF IsSome(rec[f]) THEN Unwrap(rec[f]) ELSE FieldDefault(kind, f)])

\* the derived Deserialize of ModelPicker: its fields selected and settings
\* are structs that are deserialized in turn
DeserializePicker(rec) ==
    IF Absent(rec) \ Defaulted("ModelPicker") # {} THEN None
    ELSE LET sel == Deserialize("SelectedModel", Unwrap(rec.selected))
             st  == Deserialize("ModelSettings", Unwrap(rec.settings))
         IN  IF sel = None \/ st = None THEN None
             ELSE Some([selected |-> Unwrap(sel),
                        info     |-> IF IsSome(rec.info) THEN Unwrap(rec.info)
                                     ELSE FieldDefault("ModelPicker", "info"),
                        settings |-> Unwrap(st)])

\* ---- the records that are loaded
\* the SelectedModel values a run of the program persists
SelectedValues == {SelectedDefault} \cup {FromLocalModel(m) : m \in LocalModels}
SelectedRecords ==
    {Persisted(v, present) : v \in SelectedValues, present \in SUBSET SelectedModelFields}

\* settings records: all fields, one field, all but one field, or no field
SettingsRecords ==
    {Persisted(SettingsOf(SettingsFields, v), present) :
        v \in 1..MaxVariant,
        present \in {p \in SUBSET SettingsFields :
                        \/ Cardinality(p) <= 1
                        \/ Cardinality(SettingsFields \ p) <= 1}}
    \cup {Persisted(SettingsDefault, SettingsFields)}

PickerRecords ==
    {[selected |-> sel, info |-> inf, settings |-> st] :
        sel \in {None} \cup {Some(r) : r \in SelectedRecords},
        inf \in {None, Some(None)} \cup {Some(Some(i)) : i \in ModelInfos},
        st  \in {None, Some(Persisted(SettingsDefault, {})),
                 Some(Persisted(SettingsOf(SettingsFields, 1), SettingsFields))}}

\* the records a version of the program wrote that had no short_name and no
\* modified_ago yet, and the records this version writes
StartRecords ==
    {[selected |-> Some(Persisted(v, present)), info |-> Some(None),
      settings |-> Some(Persisted(SettingsDefault, SettingsFields))] :
        v \in SelectedValues,
        present \in {SelectedModelFields,
                     SelectedModelFields \ {"short_name", "modified_ago"}}}

\* a SelectedModel is loaded
LoadSelected ==
    /\ loaded = None
    /\ \E rec \in SelectedRecords :
          loaded' = Some([kind |-> "SelectedModel", record |-> rec,
                          result |-> Deserialize("SelectedModel", rec)])
    /\ UNCHANGED <<sessVars, pickVars, convVars, nameVars>>

\* a ModelSettings is loaded
LoadSettings ==
    /\ loaded = None
    /\ \E rec \in SettingsRecords :
          loaded' = Some([kind |-> "ModelSettings", record |-> rec,
                          result |-> Deserialize("ModelSettings", rec)])
    /\ UNCHANGED <<sessVars, pickVars, convVars, nameVars>>

\* the ModelPicker is restored from rec, at startup; when the load fails the
\* picker is left as built (what else happens is the caller's business)
RestoreFrom(rec) ==
    LET result == DeserializePicker(rec)
    IN  /\ loaded = None
        /\ loaded' = Some([kind |-> "ModelPicker", record |-> rec, result |-> result])
        /\ IF IsSome(result)
             THEN /\ selected' = Unwrap(result).selected
                  /\ info' = Unwrap(result).info
                  /\ settings' = Unwrap(result).settings
             ELSE UNCHANGED <<selected, info, settings>>
        /\ info_from' = None
        /\ last' = [op |-> "restore", click |-> "none", catalog |-> FALSE,
                    had_info |-> IsSome(info), prev_name |-> selected.name,
                    name |-> <<>>, models |-> None, fetches |-> <<>>]
        /\ UNCHANGED <<sessVars, convVars, nameVars>>

\* a ModelPicker is loaded from any record
LoadPicker == \E rec \in PickerRecords : RestoreFrom(rec)

\* the ModelPicker is restored from a record some version of the program wrote
Restore == \E rec \in StartRecords : RestoreFrom(rec)

LoadIdle == loaded = None

\* ======================================================================
\* Specifications
\* ======================================================================
\* Sessions: Tts::default() succeeds or fails
InitSessions ==
    /\ SessionsDefault /\ tts \in {None, Some("Tts")}
    /\ PickerDefault /\ ConvIdle /\ NameIdle /\ LoadIdle
NextSessions == Tick \/ SelectTab \/ NewChat \/ SelectChat \/ DeviceFinish
SpecSessions == InitSessions /\ [][NextSessions]_vars

\* Sessions under a host that runs every tick that was requested
NextPolling == Repaint \/ Activity \/ DeviceFinish
SpecPolling == InitSessions /\ [][NextPolling]_vars /\ WF_vars(Repaint)

\* ModelPicker
InitPicker ==
    /\ PickerDefault
    /\ SessionsDefault /\ tts = None /\ ConvIdle /\ NameIdle /\ LoadIdle
NextPicker == Render \/ ClickEntry \/ ClickRefresh \/ EditSettings \/ DeliverInfo
                \/ SelectBest
SpecPicker == InitPicker /\ [][NextPicker]_vars

\* ModelPicker under a host that keeps rendering and a fetch collaborator
\* that answers a request it was sent; responses may also arrive late, for a
\* model that is no longer selected (DeliverInfo).  The settings editor, which
\* neither reads nor writes the selection or the cache, is left closed.
NextFetch == Render \/ ClickEntry \/ ClickRefresh \/ DeliverInfo \/ SelectBest \/ Respond
SpecFetch == InitPicker /\ [][NextFetch]_vars /\ WF_vars(Render) /\ SF_vars(Respond)

\* the settings editor: the user works with the editor of one parameter,
\* starting from ModelSettings::default or from settings in which the other
\* parameters, or all of them, are present
InitEditor ==
    /\ \E f \in SettingsFields, v \in 1..MaxVariant :
          /\ settings \in {SettingsDefault, SettingsOf(SettingsFields \ {f}, v),
                            SettingsOf(SettingsFields, v)}
          /\ last = [op |-> "new", act |-> NoAct, focus |-> f, before |-> None]
    /\ selected = SelectedDefault /\ info = None /\ info_from = None
    /\ SessionsDefault /\ tts = None /\ ConvIdle /\ NameIdle /\ LoadIdle
SpecEditor == InitEditor /\ [][EditorFrame]_vars

\* loading a persisted record
NextLoad == LoadSelected \/ LoadSettings \/ LoadPicker
SpecLoad == InitPicker /\ [][NextLoad]_vars

\* ModelPicker restored at startup, and the ways a model gets selected
NextRestore == Restore \/ ClickEntry \/ SelectBest
SpecRestore == InitPicker /\ [][NextRestore]_vars

\* the conversion, applied to a settings value
InitConvert ==
    /\ \E present \in PresenceSets, v \in 1..MaxVariant :
          settings = SettingsOf(present, v)
    /\ ConvIdle
    /\ selected = SelectedDefault /\ info = None /\ info_from = None
    /\ last = [op |-> "new", click |-> "none", catalog |-> FALSE, had_info |-> FALSE,
               prev_name |-> <<>>, name |-> <<>>, models |-> None, fetches |-> <<>>]
    /\ SessionsDefault /\ tts = None /\ NameIdle /\ LoadIdle
SpecConvert == InitConvert /\ [][Convert]_vars

\* make_short_name, applied to a name
InitShortName ==
    /\ name_arg \in NameInputs /\ short_result = None
    /\ PickerDefault /\ ConvIdle /\ LoadIdle
    /\ SessionsDefault /\ tts = None
SpecShortName == InitShortName /\ [][MakeShortName]_vars

\* ======================================================================
\* Claims about Sessions
\* ======================================================================

\* samples[i..j] is a maximal run of speaking samples
MaximalRun(i, j) ==
    /\ i <= j
    /\ \A k \in i..j : samples[k]
    /\ (i = 1 \/ ~samples[i - 1])
    /\ (j = Len(samples) \/ ~samples[j + 1])

ExampleSamples == <<TRUE, TRUE, FALSE, FALSE, TRUE, FALSE>>
ExampleStopped == <<FALSE, FALSE, TRUE, FALSE, FALSE, TRUE>>

\* C1: with the previous sample initially false, the stopped value of tick i
\* is true iff sample i-1 was speaking and sample i is not; the samples
\* [T,T,F,F,T,F], taken after a sample that was not speaking (or first),
\* give [F,F,T,F,F,T]; every maximal run of speaking samples
\* that has ended is followed by exactly one tick with stopped = true (the
\* tick right after the run, and none until the next run starts).
C1_EdgeDetector ==
    /\ Len(stopped_seq) = Len(samples)
    /\ \A i \in 1..Len(samples) :
          stopped_seq[i] <=> ((i > 1 /\ samples[i - 1]) /\ ~samples[i])
    /\ \A p \in 1..Len(samples) :
          ((p = 1 \/ ~samples[p - 1]) /\ p + 5 <= Len(samples)
             /\ SubSeq(samples, p, p + 5) = ExampleSamples)
          => SubSeq(stopped_seq, p, p + 5) = ExampleStopped
    /\ \A i \in 1..Len(samples) : \A j \in i..Len(samples) :
          (MaximalRun(i, j) /\ j < Len(samples)) =>
              /\ stopped_seq[j + 1]
              /\ \A k \in i..j : ~stopped_seq[k]
              /\ \A k \in (j + 2)..Len(samples) :
                    (\A m \in (j + 1)..k : ~samples[m]) => ~stopped_seq[k]

\* the first sample of a run of the program is never speaking (only a shown
\* chat starts playback), so the example follows one idle sample
C1_Witness ==
    /\ samples = <<FALSE>> \o ExampleSamples
    /\ stopped_seq = <<FALSE>> \o ExampleStopped

\* C7: a tick in which New Chat is clicked appends exactly one default chat
\* at the end of the list, leaves every chat that is not shown in that tick
\* as it was, and leaves the active index unchanged.
C7_NewChatAppends ==
    [][NewChat =>
        /\ Len(chats') = Len(chats) + 1
        /\ chats'[Len(chats')] = ChatDefault
        /\ selected_chat' = selected_chat
        /\ \A i \in 1..Len(chats) :
              (selected_chat # Some(i - 1)) => chats'[i] = chats[i]]_vars

\* from one session with index 0 active, after two new sessions: 3 sessions,
\* index 0 still active
C7_Witness ==
    /\ Len(chats) = 3
    /\ selected_chat = Some(0)
    /\ chats[1].summary = "hello"
    /\ chats[2] = ChatDefault /\ chats[3] = ChatDefault

\* C8 (as claimed): every tick makes exactly one chat.show call, and a
\* stopped = true value is delivered to the session that started the playback
\* whose end it reports (stated here for the ticks whose status read
\* succeeded, so that the edge is the real end of the utterance).
C8_EdgeReachesSpeaker ==
    /\ Len(samples) > 0 => Len(tick.shown) = 1
    /\ \A n \in 1..Len(tick.shown) :
          (tick.shown[n].stopped /\ tick.read_ok)
              => speaker = Some(tick.shown[n].idx)

\* C11: in every reachable state the session list is non-empty, the active
\* index is present and less than the number of sessions, and a tick has
\* shown exactly one session, an existing one; no step shrinks the list or
\* changes the sessions it already holds other than by showing one; a tick in
\* which the button at position i is clicked sets the active index to i.
C11_SessionDirectory ==
    /\ [](/\ Len(chats) >= 1
          /\ IsSome(selected_chat)
          /\ Unwrap(selected_chat) \in 0..(Len(chats) - 1)
          /\ Len(samples) > 0 =>
                /\ Len(tick.shown) = 1
                /\ tick.shown[1].idx = Unwrap(selected_chat))
    /\ [][/\ Len(chats') >= Len(chats)
          /\ \A i \in 0..(MaxChats - 1) :
                (\E readOk \in ReadOutcomes, play \in Playbacks :
                     Show(readOk, SelectClick(i), play))
                  => selected_chat' = Some(i)]_vars

\* the last of three sessions was selected by its button and shown
C11_Witness ==
    /\ Len(chats) = 3
    /\ selected_chat = Some(2)
    /\ tick.shown = <<[idx |-> 2, stopped |-> FALSE]>>
    /\ chats[3].summary = "hello"

\* C12: the last tick asked the host for another tick (exactly one
\* request_repaint call) iff the sample it took is speaking; a tick whose
\* sample is not speaking made no such call.
C12_ContinuousPolling ==
    Len(samples) > 0 =>
        /\ samples[Len(samples)] = is_speaking
        /\ is_speaking => tick.repaint = 1
        /\ ~is_speaking => tick.repaint = 0

\* a tick that sampled speaking after a tick that did not, and asked for more
C12_Witness ==
    /\ Len(samples) >= 2
    /\ ~samples[Len(samples) - 1] /\ samples[Len(samples)]
    /\ tick.repaint = 1

\* C14: a tick whose status read failed took the sample "not speaking",
\* computed stopped as a tick that read "not speaking" does, asked for no
\* repaint and still showed the active session; without a device every sample
\* is "not speaking", no tick asks for a repaint and stopped is false in
\* every tick.
C14_DeviceFailure ==
    /\ (Len(samples) > 0 /\ ~tick.read_ok) =>
          LET n == Len(samples)
          IN  /\ ~samples[n]
              /\ stopped_seq[n] = (n > 1 /\ samples[n - 1])
              /\ tick.repaint = 0
              /\ Len(tick.shown) = 1
              /\ tick.shown[1].stopped = stopped_seq[n]
    /\ tts = None =>
          /\ \A i \in 1..Len(samples) : ~samples[i] /\ ~stopped_seq[i]
          /\ tick.repaint = 0
          /\ ~is_speaking
          /\ \A n \in 1..Len(tick.shown) : ~tick.shown[n].stopped

\* the read of a device that is still speaking failed: the tick sampled
\* "not speaking" and told the session that speech stopped
C14_Witness ==
    /\ Len(samples) >= 2
    /\ ~tick.read_ok /\ device_busy
    /\ samples[Len(samples) - 1] /\ ~samples[Len(samples)]
    /\ tick.shown = <<[idx |-> 0, stopped |-> TRUE]>>

\* the last tick delivered stopped = true to the active session
StoppedDelivered ==
    /\ Len(tick.shown) = 1
    /\ tick.shown[1].stopped
    /\ tick.shown[1].idx = Unwrap(selected_chat)

\* C13: under a host that runs every requested tick (and whatever else the
\* user does or does not do), whenever a tick has sampled the device as
\* speaking and the device is silent at some later time, a tick that delivers
\* stopped = true to the active session occurs.
C13_EdgeEventuallyDelivered ==
    /\ [](is_speaking => (<>(~device_busy) => <>StoppedDelivered))
    /\ (is_speaking /\ ~device_busy) ~> StoppedDelivered

\* the utterance ended by itself and the next tick told the active session
C13_Witness ==
    /\ StoppedDelivered
    /\ tick.read_ok /\ tick.repaint = 0
    /\ ~is_speaking /\ ~device_busy
    /\ speaker = selected_chat

\* C21: within one tick the device is sampled (before the shown chat can
\* command it) and the edge computed from that sample, then the clicks on New
\* Chat and on the chat buttons are applied, then chat.show is called exactly
\* once, on the chat that is active after the clicks and with the tick's
\* stopped value; no other chat is shown, so after a switch the previously
\* active chat is left as it was.
C21_TickOrdering ==
    [][samples' # samples =>
         LET idx == Unwrap(selected_chat')
         IN  /\ is_speaking' = (IsSome(tts) /\ tick'.read_ok /\ device_busy)
             /\ IsSome(selected_chat')
             /\ tick'.shown = <<[idx |-> idx,
                                 stopped |-> (is_speaking /\ ~is_speaking')]>>
             /\ Len(chats') \in {Len(chats), Len(chats) + 1}
             /\ idx < Len(chats')
             /\ chats'[idx + 1].summary = "hello"
             /\ \A i \in 1..Len(chats') :
                   i # idx + 1 =>
                     chats'[i] = IF i <= Len(chats) THEN chats[i] ELSE ChatDefault
             /\ speaker' # speaker => speaker' = selected_chat'
    ]_vars

\* third tick: two chats were added in the first two ticks, the third one
\* switches to the last chat, which is shown with stopped = TRUE; the chat in
\* between was never shown
C21_Witness ==
    /\ Len(samples) = 3
    /\ Len(chats) = 3
    /\ selected_chat = Some(2)
    /\ stopped_seq[3]
    /\ tick.shown = <<[idx |-> 2, stopped |-> TRUE]>>
    /\ chats[1].summary = "hello"
    /\ chats[2].summary = ""
    /\ chats[3].summary = "hello"

\* ======================================================================
\* Claims about ModelPicker
\* ======================================================================

\* the entries of maximum size of a catalog, by 0-based index
IsMaximum(models, i) == \A k \in 1..Len(models) : models[k].size <= models[i + 1].size
FirstMaximum(models) ==
    CHOOSE i \in 0..(Len(models) - 1) :
        IsMaximum(models, i) /\ \A k \in 0..(i - 1) : ~IsMaximum(models, k)
LastMaximum(models) ==
    CHOOSE i \in 0..(Len(models) - 1) :
        IsMaximum(models, i) /\ \A k \in (i + 1)..(Len(models) - 1) : ~IsMaximum(models, k)

\* C2 (as claimed): select_best_model on a non-empty catalog selects the
\* first entry of maximum size; on sizes [10, 50, 50] the entry at index 1.
C2_SelectsFirstMaximum ==
    (last.op = "select_best_model" /\ last.models # Some(<<>>)) =>
        LET models == Unwrap(last.models)
        IN  /\ selected = FromLocalModel(models[FirstMaximum(models) + 1])
            /\ models = ServerCatalog => selected = FromLocalModel(models[2])

\* C2 (amended): select_best_model on a non-empty catalog selects an entry of
\* maximum size, and among several of them the last in catalog order; on
\* sizes [10, 50, 50] the entry at index 2.
C2_SelectsLastMaximum ==
    (last.op = "select_best_model" /\ last.models # Some(<<>>)) =>
        LET models == Unwrap(last.models)
        IN  /\ selected.size = models[LastMaximum(models) + 1].size
            /\ \A k \in 1..Len(models) : models[k].size <= selected.size
            /\ selected = FromLocalModel(models[LastMaximum(models) + 1])
            /\ models = ServerCatalog => selected = FromLocalModel(models[3])

C2_Witness ==
    /\ last.op = "select_best_model"
    /\ last.models = Some(ServerCatalog)
    /\ ServerCatalog[1].size = 10 /\ ServerCatalog[2].size = 50
    /\ ServerCatalog[3].size = 50
    /\ selected.name = ServerCatalog[3].name
    /\ selected.name # ServerCatalog[2].name

\* C3 (as claimed): a present cache entry was delivered for the name of the
\* currently selected model.
C3_CacheMatchesSelection == IsSome(info) => info_from = Some(selected.name)

\* C4: a render in which a catalog entry is clicked leaves the cache absent,
\* whatever it was before and whichever entry is clicked.
C4_ClickClearsInfo == (last.op = "show" /\ last.click = "entry") => info = None

\* select A, deliver info for A, select A again: info is absent
C4_Witness ==
    /\ last.op = "show" /\ last.click = "entry"
    /\ last.had_info
    /\ last.prev_name = selected.name
    /\ info = None

\* C5: on_new_model_info(name, info) stores info iff name is the selected
\* model's name; when the names differ the cache is left as it was; the
\* selected model is left as it was in both cases.
C5_DeliveryGuard ==
    [][\A name \in ModelNames, inf \in ModelInfos :
          OnNewModelInfo(name, inf) =>
              /\ selected' = selected
              /\ (selected.name = name) => info' = Some(inf)
              /\ (selected.name # name) => info' = info]_vars

\* a response for a model that is not the selected one was discarded, and
\* the cache of the selected model is still there
C5_Witness ==
    /\ last.op = "on_new_model_info"
    /\ HasSelection(selected)
    /\ last.name # selected.name
    /\ last.had_info /\ IsSome(info)
    /\ info_from = Some(selected.name)

IsModelInfoRequest(r) == r.kind = "ModelInfo"

\* C6: a render requests ModelInfo(n) exactly once, for the name n selected
\* after the render's selection handling, if a model is selected and the cache
\* is absent then, and not at all otherwise; with or without a catalog.
C6_LazyFetch ==
    (last.op = "show") =>
        SelectSeq(last.fetches, IsModelInfoRequest)
            = IF HasSelection(selected) /\ info = None
                THEN <<RequestModelInfo(selected.name)>> ELSE <<>>

\* a render without a catalog that requests the info of the selected model
C6_Witness ==
    /\ last.op = "show" /\ ~last.catalog
    /\ HasSelection(selected) /\ info = None
    /\ last.fetches = <<RequestModelInfo(selected.name)>>

IsModelsRequest(r) == r.kind = "Models"

\* C16: a render in which no catalog entry is clicked leaves the selected
\* model and the cached info as they were; a render without a catalog offers
\* neither the selector nor the refresh button and leaves both as they were;
\* a render in which the refresh button is clicked requests the catalog
\* exactly once and leaves the selected model, the cached info and the
\* settings as they were; no other render requests the catalog.
C16_RenderFrame ==
    [][last'.op = "show" =>
        /\ last'.click # "entry" => (selected' = selected /\ info' = info)
        /\ ~last'.catalog =>
              /\ last'.click \notin {"entry", "refresh"}
              /\ selected' = selected /\ info' = info
        /\ last'.click = "refresh" =>
              /\ SelectSeq(last'.fetches, IsModelsRequest) = <<RequestModels>>
              /\ selected' = selected /\ info' = info /\ settings' = settings
        /\ last'.click # "refresh" =>
              SelectSeq(last'.fetches, IsModelsRequest) = <<>>]_vars

\* refresh clicked with a model selected, its info cached, a setting enabled
C16_Witness ==
    /\ last.op = "show" /\ last.click = "refresh"
    /\ last.fetches = <<RequestModels>>
    /\ HasSelection(selected) /\ last.prev_name = selected.name
    /\ IsSome(info) /\ last.had_info
    /\ IsSome(settings.num_ctx)

\* C17: select_best_model with an empty catalog leaves the selected model,
\* the cached info and the settings as they were.
C17_EmptyCatalogNoOp ==
    [][(last'.op = "select_best_model" /\ last'.models = Some(<<>>)) =>
          (selected' = selected /\ info' = info /\ settings' = settings)]_vars

\* called with an empty catalog while a model was selected and its info cached
C17_Witness ==
    /\ last.op = "select_best_model" /\ last.models = Some(<<>>)
    /\ HasSelection(selected) /\ last.prev_name = selected.name
    /\ IsSome(info) /\ last.had_info

\* the cache holds the info that was delivered for the selected model
CachedForSelected == IsSome(info) /\ info_from = Some(selected.name)

\* C15 (as claimed): while renders go on and requests are answered, a model
\* that stays selected eventually has its info in the cache; every render
\* with a selection and no cached info requests it, and a render with cached
\* info requests nothing.
C15_FetchConverges ==
    /\ \A n \in ModelNames :
          (selected.name = n) ~> (selected.name # n \/ CachedForSelected)
    /\ [][last'.op = "show" =>
            SelectSeq(last'.fetches, IsModelInfoRequest)
                = IF HasSelection(selected') /\ info' = None
                    THEN <<RequestModelInfo(selected'.name)>> ELSE <<>>]_vars

\* ======================================================================
\* Claims about the settings editor
\* ======================================================================

C22_StopEditor ==
    (last.op = "settings" /\ last.focus = "stop") =>
        LET w   == last.act.what
            v   == last.before
            v2  == settings.stop
            old == Unwrap(v)
            i   == last.act.idx
        IN  /\ (w = "add" /\ IsSome(v)) =>
                  /\ IsSome(v2)
                  /\ Len(Unwrap(v2)) = Len(old) + 1
                  /\ SubSeq(Unwrap(v2), 1, Len(old)) = old
                  /\ Unwrap(v2)[Len(old) + 1] = ""
            /\ w = "remove" =>
                  /\ IsSome(v) /\ i \in 0..(Len(old) - 1)
                  /\ v2 = Some(SubSeq(old, 1, i) \o SubSeq(old, i + 2, Len(old)))
            /\ w = "clear" =>
                  /\ IsSome(v)
                  /\ v2 = Some(<<>>)
                  /\ ToGenerationOptions(settings).stop = Some(<<>>)
            /\ (w = "toggle" /\ IsSome(v)) => v2 = None
            /\ (w = "toggle" /\ v = None) => v2 = Some(<<>>)
            /\ (w # "toggle" /\ v = None) => v2 = None

\* the middle one of three different stop sequences was removed
C22_Witness ==
    /\ last.op = "settings" /\ last.focus = "stop"
    /\ last.act.what = "remove" /\ last.act.idx = 1
    /\ last.before = Some(<<"###", "", "User:">>)
    /\ settings.stop = Some(<<"###", "User:">>)

\* ======================================================================
\* Claims about the persisted state
\* ======================================================================

\* C19 (as claimed): whenever a model is selected, its short name is not
\* empty and is the short name derived from its canonical name.
C19_ShortNameDerived ==
    HasSelection(selected) =>
        /\ selected.short_name # <<>>
        /\ selected.short_name = make_short_name(selected.name)

\* the fields a load cannot do without, as the amended claim lists them
NeededFields(kind) ==
    CASE kind = "SelectedModel" -> {"name", "modified_at", "size"}
      [] kind = "ModelPicker"   -> {"selected", "settings"}
      [] OTHER                  -> {}

\* each absent field of rec has its default in value, each present one the
\* recorded value
FilledIn(kind, rec, value) ==
    \A f \in DOMAIN rec :
        value[f] = IF rec[f] = None
                     THEN (CASE kind # "SelectedModel"         -> None
                             [] f \in {"name", "short_name"} -> <<>>
                             [] f = "size"                   -> 0
                             [] OTHER                        -> "")
                     ELSE Unwrap(rec[f])

\* C20 (as claimed): loading a record of SelectedModel, ModelPicker or
\* ModelSettings succeeds whichever fields are absent, and every absent field
\* has its default value.
C20_AnySubsetLoads ==
    IsSome(loaded) =>
        LET l == Unwrap(loaded)
        IN  /\ IsSome(l.result)
            /\ l.kind # "ModelPicker" => FilledIn(l.kind, l.record, Unwrap(l.result))

\* C20 (amended): loading succeeds iff no field without a default is absent:
\* SelectedModel needs name, modified_at and size, ModelPicker needs selected
\* and settings (and a selected that loads), ModelSettings needs nothing; on
\* success every absent field has its default (the empty string, or none)
\* and every present field its recorded value.
C20_DefaultedFieldsLoad ==
    IsSome(loaded) =>
        LET l   == Unwrap(loaded)
            rec == l.record
        IN  /\ IsSome(l.result) <=>
                  /\ Absent(rec) \cap NeededFields(l.kind) = {}
                  /\ l.kind = "ModelPicker" =>
                        Absent(Unwrap(rec.selected)) \cap NeededFields("SelectedModel") = {}
            /\ (IsSome(l.result) /\ l.kind # "ModelPicker") =>
                  FilledIn(l.kind, rec, Unwrap(l.result))
            /\ (IsSome(l.result) /\ l.kind = "ModelPicker") =>
                  LET v == Unwrap(l.result)
                  IN  /\ FilledIn("SelectedModel", Unwrap(rec.selected), v.selected)
                      /\ FilledIn("ModelSettings", Unwrap(rec.settings), v.settings)
                      /\ v.info = IF rec.info = None THEN None ELSE Unwrap(rec.info)
                      /\ selected = v.selected /\ info = v.info
                      /\ settings = v.settings

\* a SelectedModel record without short_name and modified_ago loads, with
\* both empty
C20_Witness ==
    /\ IsSome(loaded)
    /\ Unwrap(loaded).kind = "SelectedModel"
    /\ Absent(Unwrap(loaded).record) = {"short_name", "modified_ago"}
    /\ Unwrap(Unwrap(loaded).record.name) = Gemma
    /\ IsSome(Unwrap(loaded).result)
    /\ Unwrap(Unwrap(loaded).result).short_name = <<>>
    /\ Unwrap(Unwrap(loaded).result).modified_ago = ""
    /\ Unwrap(Unwrap(loaded).result).name = Gemma

\* ======================================================================
\* Claims about the conversion and the short name
\* ======================================================================

\* the number the claim gives each Mirostat variant
MirostatNumber(m) ==
    CASE m = "Disabled" -> 0
      [] m = "Mirostat" -> 1
      [] OTHER          -> 2

\* C9: the conversion is total, and for every set of present parameters each
\* output field is omitted iff its parameter is none, and otherwise holds the
\* parameter's value (Mirostat as 0, 1 or 2).
C9_FieldwiseConversion ==
    /\ options = None => ENABLED Convert
    /\ IsSome(options) =>
         \A f \in SettingsFields :
            /\ (settings[f] = None) <=> (Unwrap(options)[f] = None)
            /\ IsSome(settings[f]) =>
                 IF f = "mirostat"
                   THEN Unwrap(options)[f] = Some(MirostatNumber(Unwrap(settings[f])))
                   ELSE Unwrap(options)[f] = settings[f]

\* Mirostat 2.0 and top_k present, top_p and seed none
C9_Witness ==
    /\ IsSome(options)
    /\ settings.mirostat = Some("Mirostat2")
    /\ Unwrap(options).mirostat = Some(2)
    /\ IsSome(settings.top_k) /\ Unwrap(options).top_k = settings.top_k
    /\ settings.top_p = None /\ Unwrap(options).top_p = None
    /\ settings.seed = None

\* the length of the leading run of alphanumeric characters
LeadingRun(str) ==
    CHOOSE k \in 0..Len(str) :
        /\ \A i \in 1..k : IsAlphanumeric(str[i])
        /\ (k = Len(str) \/ ~IsAlphanumeric(str[k + 1]))

\* C10: the short name is the leading run of alphanumeric characters with its
\* first character upper-cased and the rest unchanged; it is Llama if the name
\* begins with a non-alphanumeric character; it is never empty.
C10_ShortName ==
    IsSome(short_result) =>
        LET r == Unwrap(short_result)
            k == LeadingRun(name_arg)
        IN  /\ r # <<>>
            /\ k > 0 => r = ToUppercase(name_arg[1]) \o SubSeq(name_arg, 2, k)
            /\ (name_arg # <<>> /\ ~IsAlphanumeric(name_arg[1])) => r = Llama
            /\ name_arg = NousHermes => r = <<"N", "o", "u", "s">>
            /\ name_arg = Gemma => r = <<"G", "e", "m", "m", "a">>

\* a name that begins with a non-alphanumeric character
C10_Witness ==
    /\ name_arg = DashModel
    /\ short_result = Some(Llama)

====
